---- MODULE Spec2Model ----
(***************************************************************************)
(* Model of the MSX CAS tape codec (src/src/tape.rs): blocks, the Files    *)
(* iterator that groups blocks into files, and the Tape with its typed     *)
(* append operations and its parser.  Bytes are integers 0..255, a Block   *)
(* is its `data` vector (the 8 prefix bytes included), cursors and indices *)
(* are 0-based as in the source.  A Rust panic (slice or index out of      *)
(* range, unwrap of None) is an explicit outcome "panic".                  *)
(***************************************************************************)
EXTENDS Integers, Sequences, FiniteSets, TLC

(* ------------------------------------------------------------------ *)
(* Program constants                                                    *)
(* ------------------------------------------------------------------ *)
PrefixLen == 8
PatternLen == 10
NameEnd == 16
ChunkLen == 256
BlockAlign == 8
EofByte == 26
ZeroByte == 0
AddrLen == 6

(* ------------------------------------------------------------------ *)
(* Bounds of the model                                                  *)
(* ------------------------------------------------------------------ *)
MaxOps == 2
MaxFullChunks == 1
MaxPieces == 3

(* ------------------------------------------------------------------ *)
(* Byte-sequence helpers                                                *)
(* ------------------------------------------------------------------ *)
Rep(b, n) == [k \in 1..n |-> b]

Min(a, b) == IF a < b THEN a ELSE b

Contains(s, b) == \E k \in 1..Len(s) : s[k] = b

Prefix == <<31, 166, 222, 186, 204, 19, 125, 116>>
BinPattern == Rep(208, PatternLen)
BasicPattern == Rep(211, PatternLen)
AsciiPattern == Rep(234, PatternLen)

(* ------------------------------------------------------------------ *)
(* Block                                                                *)
(* ------------------------------------------------------------------ *)
from_data(bytes) == Prefix \o bytes

data_without_prefix(block) == SubSeq(block, PrefixLen + 1, Len(block))

\* `data[..10] == pattern`: the slice panics when the body has fewer than 10 bytes.
HeaderTest(block, pattern) ==
    LET data == data_without_prefix(block)
    IN  IF Len(data) < PatternLen THEN "panic"
        ELSE IF SubSeq(data, 1, PatternLen) = pattern THEN "true" ELSE "false"

is_bin_header(block) == HeaderTest(block, BinPattern)

\* Mutant: the basic test compares with the bin pattern.
is_basic_header_BinPattern(block) == HeaderTest(block, BinPattern)

is_basic_header(block) == HeaderTest(block, BasicPattern)

is_ascii_header(block) == HeaderTest(block, AsciiPattern)

\* a || b || c, evaluated left to right with short circuit.
OrElse(a, b) == IF a = "false" THEN b ELSE a

is_file_header(block) ==
    OrElse(is_bin_header(block), OrElse(is_basic_header(block), is_ascii_header(block)))

\* std::str::from_utf8(..).is_ok() on a byte sequence.
RECURSIVE Utf8Valid(_)
Utf8Valid(s) ==
    IF s = <<>> THEN TRUE
    ELSE LET b == s[1]
             n == Len(s)
             Cont(k, lo, hi) == k <= n /\ s[k] >= lo /\ s[k] <= hi
         IN  IF b < 128 THEN Utf8Valid(Tail(s))
             ELSE IF b >= 194 /\ b <= 223
                  THEN Cont(2, 128, 191) /\ Utf8Valid(SubSeq(s, 3, n))
             ELSE IF b >= 224 /\ b <= 239
                  THEN /\ Cont(2, IF b = 224 THEN 160 ELSE 128, IF b = 237 THEN 159 ELSE 191)
                       /\ Cont(3, 128, 191)
                       /\ Utf8Valid(SubSeq(s, 4, n))
             ELSE IF b >= 240 /\ b <= 244
                  THEN /\ Cont(2, IF b = 240 THEN 144 ELSE 128, IF b = 244 THEN 143 ELSE 191)
                       /\ Cont(3, 128, 191)
                       /\ Cont(4, 128, 191)
                       /\ Utf8Valid(SubSeq(s, 5, n))
             ELSE FALSE

\* str::trim_end_matches(&['\0', ' ']) on a valid UTF-8 string, as bytes.
RECURSIVE TrimEnd(_)
TrimEnd(s) ==
    IF s = <<>> THEN s
    ELSE IF s[Len(s)] = 0 \/ s[Len(s)] = 32 THEN TrimEnd(SubSeq(s, 1, Len(s) - 1))
    ELSE s

\* Option<&str>: tag "some" with the trimmed name, "none", or "panic".
file_name(block) ==
    LET hdr == is_file_header(block)
        data == data_without_prefix(block)
    IN  IF hdr = "panic" THEN [tag |-> "panic", name |-> <<>>]
        ELSE IF hdr = "false" THEN [tag |-> "none", name |-> <<>>]
        ELSE IF Len(data) < NameEnd THEN [tag |-> "panic", name |-> <<>>]
        ELSE LET name == SubSeq(data, PatternLen + 1, NameEnd)
             IN  IF Utf8Valid(name) THEN [tag |-> "some", name |-> TrimEnd(name)]
                 ELSE [tag |-> "none", name |-> <<>>]

(* ------------------------------------------------------------------ *)
(* File and the Files iterator                                          *)
(* ------------------------------------------------------------------ *)
File(kind, name, begin, end, start, data, chunks) ==
    [kind |-> kind, name |-> name, begin |-> begin, end |-> end,
     start |-> start, data |-> data, chunks |-> chunks]

NoFile == File("none", <<>>, 0, 0, 0, <<>>, <<>>)

\* char::is_whitespace on the one-byte code points (the names of the model hold
\* no multi-byte White_Space code point).
IsWhitespace(b) == b \in {9, 10, 11, 12, 13, 32}

\* File::normalized_name: "noname" when name.trim() is empty, the name otherwise.
normalized_name(name) ==
    IF \A k \in 1..Len(name) : IsWhitespace(name[k])
    THEN <<110, 111, 110, 97, 109, 101>>
    ELSE name

\* File::name(): Option<String>, the normalized name and ".bin", ".bas" or ".asc".
File_name(file) ==
    CASE file.kind = "Bin" ->
            [tag |-> "some", name |-> normalized_name(file.name) \o <<46, 98, 105, 110>>]
      [] file.kind = "Basic" ->
            [tag |-> "some", name |-> normalized_name(file.name) \o <<46, 98, 97, 115>>]
      [] file.kind = "Ascii" ->
            [tag |-> "some", name |-> normalized_name(file.name) \o <<46, 97, 115, 99>>]
      [] OTHER -> [tag |-> "none", name |-> <<>>]

\* LittleEndian::read_u16(&content[k..k+2]), k a 0-based offset.
read_u16(content, k) == content[k + 1] + 256 * content[k + 2]

Outcome(outcome, file, i) == [outcome |-> outcome, file |-> file, i |-> i]

\* The do-while loop of the ascii branch, entered with cursor k (0-based) and the
\* chunks collected so far: the block at k is indexed before k is compared to
\* the block count.
RECURSIVE AsciiLoop(_, _, _, _)
AsciiLoop(bs, name, k, acc) ==
    IF k >= Len(bs) THEN Outcome("panic", NoFile, k)
    ELSE LET chunk == data_without_prefix(bs[k + 1])
             data == Append(acc, chunk)
         IN  IF k < Len(bs) /\ ~Contains(chunk, EofByte)
             THEN AsciiLoop(bs, name, k + 1, data)
             ELSE Outcome("some", File("Ascii", name, 0, 0, 0, <<>>, data), k + 1)

\* Mutant: the Bin file carries the data-block body from offset 6 onward.
BinBranch_SkipAddr(bs, i) ==
    LET name == file_name(bs[i + 1])
    IN  IF name.tag # "some" THEN Outcome("panic", NoFile, i)
        ELSE IF i + 1 >= Len(bs) THEN Outcome("panic", NoFile, i)
        ELSE LET content == data_without_prefix(bs[i + 2])
             IN  IF Len(content) < AddrLen THEN Outcome("panic", NoFile, i)
                 ELSE Outcome("some",
                              File("Bin", name.name, read_u16(content, 0),
                                   read_u16(content, 2), read_u16(content, 4),
                                   SubSeq(content, AddrLen + 1, Len(content)), <<>>),
                              i + 2)

BinBranch(bs, i) ==
    LET name == file_name(bs[i + 1])
    IN  IF name.tag # "some" THEN Outcome("panic", NoFile, i)
        ELSE IF i + 1 >= Len(bs) THEN Outcome("panic", NoFile, i)
        ELSE LET content == data_without_prefix(bs[i + 2])
             IN  IF Len(content) < AddrLen THEN Outcome("panic", NoFile, i)
                 ELSE Outcome("some",
                              File("Bin", name.name, read_u16(content, 0),
                                   read_u16(content, 2), read_u16(content, 4),
                                   content, <<>>),
                              i + 2)

\* Mutant: the cursor advances past the header only, not past the data block.
BasicBranch_AdvanceOne(bs, i) ==
    LET name == file_name(bs[i + 1])
    IN  IF name.tag # "some" THEN Outcome("panic", NoFile, i)
        ELSE IF i + 1 >= Len(bs) THEN Outcome("panic", NoFile, i)
        ELSE Outcome("some",
                     File("Basic", name.name, 0, 0, 0, data_without_prefix(bs[i + 2]), <<>>),
                     i + 1)

BasicBranch(bs, i) ==
    LET name == file_name(bs[i + 1])
    IN  IF name.tag # "some" THEN Outcome("panic", NoFile, i)
        ELSE IF i + 1 >= Len(bs) THEN Outcome("panic", NoFile, i)
        ELSE Outcome("some",
                     File("Basic", name.name, 0, 0, 0, data_without_prefix(bs[i + 2]), <<>>),
                     i + 2)

AsciiBranch(bs, i) ==
    LET name == file_name(bs[i + 1])
    IN  IF name.tag # "some" THEN Outcome("panic", NoFile, i)
        ELSE AsciiLoop(bs, name.name, i + 1, <<>>)

CustomBranch(bs, i) ==
    Outcome("some", File("Custom", <<>>, 0, 0, 0, data_without_prefix(bs[i + 1]), <<>>), i + 1)

\* Mutant: an exhausted iterator rewinds its cursor to the first block.
Files_next_Rewind(bs, i) ==
    IF i >= Len(bs) THEN Outcome("none", NoFile, 0)
    ELSE LET block == bs[i + 1]
         IN  IF is_bin_header(block) = "panic" THEN Outcome("panic", NoFile, i)
             ELSE IF is_bin_header(block) = "true" THEN BinBranch(bs, i)
             ELSE IF is_basic_header(block) = "true" THEN BasicBranch(bs, i)
             ELSE IF is_ascii_header(block) = "true" THEN AsciiBranch(bs, i)
             ELSE CustomBranch(bs, i)

\* Files::next on the tape's blocks bs with cursor i: the outcome ("some" with the
\* file, "none", or "panic") and the cursor afterwards.
Files_next(bs, i) ==
    IF i >= Len(bs) THEN Outcome("none", NoFile, i)
    ELSE LET block == bs[i + 1]
         IN  IF is_bin_header(block) = "panic" THEN Outcome("panic", NoFile, i)
             ELSE IF is_bin_header(block) = "true" THEN BinBranch(bs, i)
             ELSE IF is_basic_header(block) = "true" THEN BasicBranch(bs, i)
             ELSE IF is_ascii_header(block) = "true" THEN AsciiBranch(bs, i)
             ELSE CustomBranch(bs, i)

(* ------------------------------------------------------------------ *)
(* Tape                                                                 *)
(* ------------------------------------------------------------------ *)
\* while body.len() % align != 0 { push(padding_byte) } on the last block.
extend_last_block(bs, align, padding_byte) ==
    IF bs = <<>> THEN bs
    ELSE LET last_block == bs[Len(bs)]
             body == Len(last_block) - PrefixLen
             missing == (align - (body % align)) % align
         IN  [bs EXCEPT ![Len(bs)] = last_block \o Rep(padding_byte, missing)]

\* Mutant: the padding is applied before the push, to the block stored last.
append_block_PadBeforePush(bs, block) ==
    Append(extend_last_block(bs, BlockAlign, ZeroByte), block)

append_block(bs, block) == extend_last_block(Append(bs, block), BlockAlign, ZeroByte)

\* slice::chunks(n): consecutive chunks of n elements, the last one possibly shorter.
Chunks(data, n) ==
    [k \in 1..((Len(data) + n - 1) \div n) |->
        SubSeq(data, (k - 1) * n + 1, Min(k * n, Len(data)))]

RECURSIVE AppendChunks(_, _)
AppendChunks(bs, chunks) ==
    IF chunks = <<>> THEN bs
    ELSE AppendChunks(append_block(bs, from_data(Head(chunks))), Tail(chunks))

append_bin(bs, name, data) ==
    append_block(append_block(bs, from_data(BinPattern \o name)), from_data(data))

append_basic(bs, name, data) ==
    append_block(append_block(bs, from_data(BasicPattern \o name)), from_data(data))

append_ascii(bs, name, data) ==
    LET withHeader == append_block(bs, from_data(AsciiPattern \o name))
        withChunks == AppendChunks(withHeader, Chunks(data, ChunkLen))
    IN  IF Len(data) % ChunkLen = 0
        THEN append_block(withChunks, from_data(Rep(EofByte, ChunkLen)))
        ELSE extend_last_block(withChunks, ChunkLen, EofByte)

append_custom(bs, data) == Append(bs, from_data(data))

\* Mutant: the prefix is searched at every offset, not on 8-byte strides only.
RECURSIVE ScanHeaders_AnyOffset(_, _, _)
ScanHeaders_AnyOffset(bytes, i, hindex) ==
    IF i >= Len(bytes) THEN hindex
    ELSE LET chunk == SubSeq(bytes, i + 1, Min(i + PrefixLen, Len(bytes)))
         IN  IF chunk = Prefix
             THEN ScanHeaders_AnyOffset(bytes, i + PrefixLen, Append(hindex, i))
             ELSE ScanHeaders_AnyOffset(bytes, i + 1, hindex)

\* First loop of parse_blocks: the offsets of the 8-byte strides equal to the prefix.
RECURSIVE ScanHeaders(_, _, _)
ScanHeaders(bytes, i, hindex) ==
    IF i >= Len(bytes) THEN hindex
    ELSE LET chunk == SubSeq(bytes, i + 1, Min(i + PrefixLen, Len(bytes)))
         IN  ScanHeaders(bytes, i + PrefixLen,
                         IF chunk = Prefix THEN Append(hindex, i) ELSE hindex)

\* Mutant: the bytes before the first prefix are kept as a block of their own.
parse_blocks_LeadingBlock(bytes) ==
    LET hindex == ScanHeaders(bytes, 0, <<>>)
        found == [k \in 1..Len(hindex) |->
                    LET from == hindex[k] + PrefixLen
                        to == IF k = Len(hindex) THEN Len(bytes) ELSE hindex[k + 1]
                    IN  from_data(SubSeq(bytes, from + 1, to))]
    IN  IF hindex # <<>> /\ hindex[1] > 0
        THEN <<from_data(SubSeq(bytes, 1, hindex[1]))>> \o found
        ELSE found

parse_blocks(bytes) ==
    LET hindex == ScanHeaders(bytes, 0, <<>>)
    IN  [k \in 1..Len(hindex) |->
            LET from == hindex[k] + PrefixLen
                to == IF k = Len(hindex) THEN Len(bytes) ELSE hindex[k + 1]
            IN  from_data(SubSeq(bytes, from + 1, to))]

from_bytes(bytes) == parse_blocks(bytes)

(* ------------------------------------------------------------------ *)
(* Inputs                                                               *)
(* ------------------------------------------------------------------ *)
\* "FOO   " (space padded) and a name that is not valid UTF-8.
NameFoo == <<70, 79, 79, 32, 32, 32>>
NameBad == <<70, 79, 79, 255, 32, 32>>
Names == {NameFoo, NameBad}

DataEmpty == <<>>
DataShort == <<1, 2, 3>>
\* begin 0x8000, end 0x8008, start 0x0000, then 4 payload bytes.
DataAddr == <<0, 128, 8, 128, 0, 0, 1, 2, 3, 4>>
DataBinHeader == BinPattern \o NameFoo
\* The bin pattern alone: a header with no room for its name.
DataShortHeader == BinPattern
Datas == {DataEmpty, DataShort, DataAddr, DataBinHeader, DataShortHeader}

\* A text of len bytes that differ along the text, with 0x1A at position eofAt
\* (1-based; 0 for no 0x1A at all).
Text(len, eofAt) == [k \in 1..len |-> IF k = eofAt THEN EofByte ELSE 65 + (k % 7)]

TextLens ==
    {0, 1, BlockAlign, ChunkLen - 1}
        \cup {c * ChunkLen + r : c \in 1..MaxFullChunks, r \in {0, BlockAlign}}

Texts == {Text(n, 0) : n \in TextLens} \cup {Text(ChunkLen + BlockAlign, 1)}

\* Pieces of a byte buffer given to from_bytes: whole blocks (prefix and a body
\* whose length is a multiple of 8), and bytes that are no block.
PieceEmpty == from_data(<<>>)
PieceBin == from_data(BinPattern \o NameFoo)
PieceBasic == from_data(BasicPattern \o NameFoo)
PieceAscii == from_data(AsciiPattern \o NameFoo)
PieceData == from_data(<<0, 128, 8, 128, 0, 0, 1, 2, 3, 4, 5, 6, 7, 8, 9, 160>>)
PieceEof == from_data(<<73, 74, 75, 76, 77, 78, 79, 26>>)
PiecePrefixBody == from_data(Prefix)
\* A 16-byte body that holds the prefix bytes at offset 4, not on an 8-byte stride.
PieceShifted == from_data(<<1, 2, 3, 4>> \o Prefix \o <<5, 6, 7, 8>>)
PieceJunk == <<1, 2, 3, 4>>
PieceRaw == <<65, 66, 67, 68, 69, 70, 71, 72>>

BlockPieces ==
    {PieceEmpty, PieceBin, PieceBasic, PieceAscii, PieceData, PieceEof, PiecePrefixBody,
     PieceShifted}

Pieces == BlockPieces \cup {PieceJunk, PieceRaw}

PieceLists == UNION {[1..n -> Pieces] : n \in 0..MaxPieces}

RECURSIVE Concat(_)
Concat(ps) == IF ps = <<>> THEN <<>> ELSE Head(ps) \o Concat(Tail(ps))

(* ------------------------------------------------------------------ *)
(* State                                                                *)
(* ------------------------------------------------------------------ *)
VARIABLES
    blocks,     \* Tape.blocks: the sequence of Block.data vectors
    iter,       \* the Files value borrowed from the tape: "none", "live", "panicked"
    i,          \* Files.i, the cursor
    emitted,    \* the files the live iterator has returned so far
    ranges,     \* for each emitted file, <<cursor before, cursor after>>
    last,       \* the last call of next(): its outcome and the cursor it started at
    log,        \* the append operations applied to the tape, in order
    origin,     \* how the tape was made: "new" (Tape::new) or "from_bytes"
    prev,       \* the files of the iteration that ended before files() was called again
    pieces      \* the pieces whose concatenation was given to from_bytes

vars == <<blocks, iter, i, emitted, ranges, last, log, origin, prev, pieces>>

NoCall == [outcome |-> "start", at |-> 0]

NoPrev == [set |-> FALSE, files |-> <<>>]

Init ==
    /\ blocks = <<>>
    /\ iter = "none"
    /\ i = 0
    /\ emitted = <<>>
    /\ ranges = <<>>
    /\ last = NoCall
    /\ log = <<>>
    /\ origin = "new"
    /\ prev = NoPrev
    /\ pieces = <<>>

Op(op, name, data) == [op |-> op, name |-> name, data |-> data]

\* A &mut self method: no Files value borrows the tape.
CanMutate == iter = "none" /\ Len(log) < MaxOps

Mutate(bs, op) ==
    /\ blocks' = bs
    /\ log' = Append(log, op)
    /\ UNCHANGED <<iter, i, emitted, ranges, last, origin, prev, pieces>>

AppendBin(name, data) ==
    /\ CanMutate
    /\ Mutate(append_bin(blocks, name, data), Op("bin", name, data))

AppendBasic(name, data) ==
    /\ CanMutate
    /\ Mutate(append_basic(blocks, name, data), Op("basic", name, data))

AppendAscii(name, data) ==
    /\ CanMutate
    /\ Mutate(append_ascii(blocks, name, data), Op("ascii", name, data))

AppendCustom(data) ==
    /\ CanMutate
    /\ Mutate(append_custom(blocks, data), Op("custom", <<>>, data))

\* Tape::files(): a new iterator with the cursor at 0.
FilesCall ==
    /\ iter \in {"none", "live"}
    /\ iter' = "live"
    /\ i' = 0
    /\ emitted' = <<>>
    /\ ranges' = <<>>
    /\ last' = NoCall
    /\ prev' = NoPrev
    /\ UNCHANGED <<blocks, log, origin, pieces>>

\* Files::next() on the live iterator.
NextCall ==
    /\ iter = "live"
    /\ LET r == Files_next(blocks, i)
       IN  /\ i' = r.i
           /\ last' = [outcome |-> r.outcome, at |-> i]
           /\ iter' = IF r.outcome = "panic" THEN "panicked" ELSE "live"
           /\ emitted' = IF r.outcome = "some" THEN Append(emitted, r.file) ELSE emitted
           /\ ranges' = IF r.outcome = "some" THEN Append(ranges, <<i, r.i>>) ELSE ranges
    /\ UNCHANGED <<blocks, log, origin, prev, pieces>>

\* The iterator goes out of scope, which ends its borrow of the tape.
DropFiles ==
    /\ iter = "live"
    /\ iter' = "none"
    /\ i' = 0
    /\ emitted' = <<>>
    /\ ranges' = <<>>
    /\ last' = NoCall
    /\ prev' = NoPrev
    /\ UNCHANGED <<blocks, log, origin, pieces>>

\* Tape::files() called again on the unmodified tape once an iteration has returned
\* None: a new iterator with the cursor at 0; the files of the ended iteration are
\* kept for comparison.
FilesAgain ==
    /\ iter = "live"
    /\ last.outcome = "none"
    /\ iter' = "live"
    /\ i' = 0
    /\ emitted' = <<>>
    /\ ranges' = <<>>
    /\ last' = NoCall
    /\ prev' = [set |-> TRUE, files |-> emitted]
    /\ UNCHANGED <<blocks, log, origin, pieces>>

\* Tape::from_bytes(bytes): the tape is made from a byte buffer instead of Tape::new().
FromBytes(ps) ==
    /\ origin = "new"
    /\ iter = "none"
    /\ log = <<>>
    /\ blocks' = from_bytes(Concat(ps))
    /\ origin' = "from_bytes"
    /\ pieces' = ps
    /\ UNCHANGED <<iter, i, emitted, ranges, last, log, prev>>

Next ==
    \/ \E name \in Names, data \in Datas : AppendBin(name, data)
    \/ \E name \in Names, data \in Datas : AppendBasic(name, data)
    \/ \E name \in Names, data \in Texts : AppendAscii(name, data)
    \/ \E data \in Datas : AppendCustom(data)
    \/ FilesCall
    \/ NextCall
    \/ DropFiles

Spec == Init /\ [][Next]_vars

NextLoad ==
    \/ \E ps \in PieceLists : FromBytes(ps)
    \/ FilesCall
    \/ FilesAgain
    \/ NextCall
    \/ DropFiles

SpecLoad == Init /\ [][NextLoad]_vars

(* ------------------------------------------------------------------ *)
(* Properties                                                           *)
(* ------------------------------------------------------------------ *)
\* The live iterator has returned None: the iteration ran to its end.
Done == iter = "live" /\ last.outcome = "none"

Panicked == iter = "panicked"

Finished == Done \/ Panicked

Body(k) == data_without_prefix(blocks[k])

AllEqual(s, b) == \A k \in 1..Len(s) : s[k] = b

\* The tape was made by exactly one append of the given kind on an empty tape,
\* and an iteration of files() over it has ended.
OneAppendIterated(op) ==
    /\ origin = "new"
    /\ Len(log) = 1
    /\ log[1].op = op
    /\ Finished

C2_AsciiPaddingLaw ==
    (OneAppendIterated("ascii") /\ Utf8Valid(log[1].name)) =>
        /\ Done
        /\ Len(emitted) = 1
        /\ emitted[1].kind = "Ascii"
        /\ LET text == log[1].data
               chunks == emitted[1].chunks
               full == Len(text) \div ChunkLen
               rest == SubSeq(text, full * ChunkLen + 1, Len(text))
           IN  /\ Len(chunks) = full + 1
               /\ \A k \in 1..full :
                      chunks[k] = SubSeq(text, (k - 1) * ChunkLen + 1, k * ChunkLen)
               /\ Len(chunks[full + 1]) = ChunkLen
               /\ chunks[full + 1] = rest \o Rep(EofByte, ChunkLen - Len(rest))

\* C3 as stated: every block of a tape built from an empty tape by append operations
\* has a body whose length is a multiple of 8.
C3_BlockAlignment ==
    origin = "new" => \A k \in 1..Len(blocks) : Len(Body(k)) % BlockAlign = 0

\* The last call of next() started at a block of the tape (0-based cursor last.at).
CalledAtBlock == last.outcome # "start" /\ last.at < Len(blocks)

CursorBlock == blocks[last.at + 1]

\* C4 as stated: when next() is called at a bin or basic header that is the last
\* block of the tape, the call ends in an explicit error outcome: it neither panics
\* nor returns a file nor returns None.
C4_DanglingHeaderIsError ==
    ( /\ CalledAtBlock
      /\ last.at = Len(blocks) - 1
      /\ file_name(CursorBlock).tag = "some"
      /\ is_bin_header(CursorBlock) = "true" \/ is_basic_header(CursorBlock) = "true" )
        => last.outcome \notin {"panic", "some", "none"}

\* C5 as stated: when next() is called at an ascii header and no later block holds
\* 0x1A, the call returns an Ascii file whose chunks are the bodies of all the
\* remaining blocks, without panic, and leaves the cursor at the block count.
C5_AsciiWithoutSentinel ==
    ( /\ CalledAtBlock
      /\ is_ascii_header(CursorBlock) = "true"
      /\ file_name(CursorBlock).tag = "some"
      /\ \A k \in (last.at + 2)..Len(blocks) : ~Contains(Body(k), EofByte) )
        => /\ last.outcome = "some"
           /\ emitted[Len(emitted)].kind = "Ascii"
           /\ emitted[Len(emitted)].chunks =
                  [k \in 1..(Len(blocks) - last.at - 1) |-> Body(last.at + 1 + k)]
           /\ i = Len(blocks)

\* C6 as stated: when next() is called at a block whose body has fewer than 10
\* bytes, or at a header whose body has fewer than 16 bytes, the call does not panic.
C6_ShortBlockNoPanic ==
    ( /\ CalledAtBlock
      /\ \/ Len(data_without_prefix(CursorBlock)) < PatternLen
         \/ /\ Len(data_without_prefix(CursorBlock)) < NameEnd
            /\ is_file_header(CursorBlock) = "true" )
        => last.outcome # "panic"

\* The emitted file k is made of exactly the blocks of its cursor range.
FileCoversItsRange(k) ==
    LET f == ranges[k][1]
        t == ranges[k][2]
        file == emitted[k]
    IN  CASE file.kind \in {"Bin", "Basic"} -> t = f + 2 /\ file.data = Body(f + 2)
          [] file.kind = "Ascii" ->
                /\ t = f + 1 + Len(file.chunks)
                /\ \A j \in 1..Len(file.chunks) : file.chunks[j] = Body(f + 1 + j)
          [] file.kind = "Custom" -> t = f + 1 /\ file.data = Body(f + 1)
          [] OTHER -> FALSE

\* C7: during an iteration of files() the cursor only moves forward: every emitted
\* file consumes a non-empty range of blocks that starts where the previous one
\* ended (the first at 0) and holds exactly the blocks the file is made of, the
\* cursor of the live iterator is the end of the last range, and once the iteration
\* has returned None every block index lies in exactly one range.
C7_ForwardCursor ==
    /\ Len(ranges) = Len(emitted)
    /\ i <= Len(blocks)
    /\ \A k \in 1..Len(ranges) :
          /\ ranges[k][1] < ranges[k][2]
          /\ ranges[k][2] <= Len(blocks)
          /\ ranges[k][1] = IF k = 1 THEN 0 ELSE ranges[k - 1][2]
          /\ FileCoversItsRange(k)
    /\ iter = "live" => i = IF ranges = <<>> THEN 0 ELSE ranges[Len(ranges)][2]
    /\ Done =>
          \A b \in 0..(Len(blocks) - 1) :
              Cardinality({k \in 1..Len(ranges) : ranges[k][1] <= b /\ b < ranges[k][2]}) = 1

\* An ascii file of two chunks and then a basic file were iterated to the end.
C7_Witness ==
    /\ Done
    /\ Len(blocks) = 5
    /\ Len(emitted) = 2
    /\ emitted[1].kind = "Ascii"
    /\ Len(emitted[1].chunks) = 2
    /\ emitted[2].kind = "Basic"

\* The prefix bytes occur in the body on an 8-byte stride.
HasAlignedPrefix(body) ==
    \E o \in 0..(Len(body) - PrefixLen) :
        o % PrefixLen = 0 /\ SubSeq(body, o + 1, o + PrefixLen) = Prefix

\* The buffer given to from_bytes is the concatenation of prefix + body for a list
\* of bodies whose lengths are multiples of 8.
LoadedFromBodies ==
    /\ origin = "from_bytes"
    /\ \A k \in 1..Len(pieces) : pieces[k] \in BlockPieces

BlocksAreTheBodies ==
    /\ Len(blocks) = Len(pieces)
    /\ \A k \in 1..Len(pieces) : Body(k) = data_without_prefix(pieces[k])

C9_AppendOnly ==
    [][ /\ Len(blocks') >= Len(blocks)
        /\ \A k \in 1..Len(blocks) : blocks'[k] = blocks[k] ]_vars

\* An ascii file was appended after a custom block whose body is not 8-aligned.
C9_Witness ==
    /\ Len(log) = 2
    /\ log[1].op = "custom"
    /\ Len(Body(1)) % BlockAlign # 0
    /\ log[2].op = "ascii"
    /\ Len(log[2].data) % ChunkLen # 0
    /\ Len(blocks) = 3

HeaderKinds(block) ==
    {t \in {"bin", "basic", "ascii"} :
        CASE t = "bin" -> is_bin_header(block) = "true"
          [] t = "basic" -> is_basic_header(block) = "true"
          [] t = "ascii" -> is_ascii_header(block) = "true"}

\* C10: for every block, at most one of is_bin_header, is_basic_header and
\* is_ascii_header returns true, and is_file_header returns true exactly when one
\* of them does.
C10_HeaderKindsExclusive ==
    \A k \in 1..Len(blocks) :
        /\ Cardinality(HeaderKinds(blocks[k])) <= 1
        /\ is_file_header(blocks[k]) = "true" <=> HeaderKinds(blocks[k]) # {}

\* A tape holds a header of each kind.
C10_Witness ==
    /\ Len(blocks) = 3
    /\ HeaderKinds(blocks[1]) = {"bin"}
    /\ HeaderKinds(blocks[2]) = {"basic"}
    /\ HeaderKinds(blocks[3]) = {"ascii"}

\* C11 as stated: after append_basic(name, data) on an empty tape, for any data,
\* files() yields exactly one file, named <name>.bas, and the body of block index 1
\* is data exactly, with no byte added; the same for append_bin and <name>.bin with
\* data of at least 6 bytes.
C11_BodyIsDataExactly ==
    ( /\ \/ OneAppendIterated("basic")
         \/ OneAppendIterated("bin") /\ Len(log[1].data) >= AddrLen
      /\ Utf8Valid(log[1].name) )
        => /\ Done
           /\ Len(emitted) = 1
           /\ File_name(emitted[1]).tag = "some"
           /\ File_name(emitted[1]).name =
                  TrimEnd(log[1].name)
                      \o (IF log[1].op = "basic" THEN <<46, 98, 97, 115>>
                                                 ELSE <<46, 98, 105, 110>>)
           /\ Body(2) = log[1].data

\* C12: the cursor never exceeds the block count; an iterator that files() has just
\* made has its cursor at 0 and has returned nothing; once next() has returned None,
\* a further next() returns None and leaves the cursor and the files returned so far
\* unchanged; and an iteration of the unmodified tape that follows an ended one
\* ends with the same sequence of files.
C12_SinglePass ==
    /\ [](i <= Len(blocks))
    /\ []((iter = "live" /\ last.outcome = "start") => (i = 0 /\ emitted = <<>>))
    /\ [][ (Done /\ iter' # "none" /\ last'.outcome # "start")
              => (last'.outcome = "none" /\ i' = i /\ emitted' = emitted) ]_vars
    /\ []((Done /\ prev.set) => emitted = prev.files)

\* A second iteration of a loaded tape of three blocks has ended after two files.
C12_Witness ==
    /\ Done
    /\ prev.set
    /\ Len(blocks) = 3
    /\ Len(emitted) = 2
    /\ i = 3

\* The offsets, multiples of 8, at which the buffer holds the 8 prefix bytes.
AlignedOffsets(bytes) ==
    {o \in 0..(Len(bytes) - PrefixLen) :
        o % PrefixLen = 0 /\ SubSeq(bytes, o + 1, o + PrefixLen) = Prefix}

Least(S) == CHOOSE o \in S : \A p \in S : o <= p

\* C13: from_bytes yields exactly one block per occurrence of the prefix at an
\* offset that is a multiple of 8; with no such occurrence (the empty buffer
\* included) the tape has no block and an iteration yields no file; otherwise the
\* blocks, laid end to end, are the buffer from its first such occurrence on, so
\* the bytes before it are in no block.
C13_OneBlockPerPrefix ==
    origin = "from_bytes" =>
        LET bytes == Concat(pieces)
            H == AlignedOffsets(bytes)
        IN  /\ Len(blocks) = Cardinality(H)
            /\ H = {} => /\ blocks = <<>>
                         /\ emitted = <<>>
                         /\ ~Panicked
            /\ H # {} => Concat(blocks) = SubSeq(bytes, Least(H) + 1, Len(bytes))

\* A buffer with 8 bytes before its only prefix and 4 bytes after the header was
\* loaded as one block.
C13_Witness ==
    /\ origin = "from_bytes"
    /\ pieces = <<PieceRaw, PieceBin, PieceJunk>>
    /\ Len(blocks) = 1
    /\ Len(Body(1)) = NameEnd + 4

\* C14 as stated: when next() is called at a bin header that is followed by a data
\* block of at least 6 body bytes, it returns Bin(name, begin, end, start, body)
\* with the header's 6 name bytes less trailing spaces and NULs, the three
\* little-endian 16-bit values at body offsets 0, 2 and 4, and the whole body of
\* the data block, and the cursor advances by exactly 2.
C14_BinFileFields ==
    ( /\ CalledAtBlock
      /\ is_bin_header(CursorBlock) = "true"
      /\ last.at + 1 < Len(blocks)
      /\ Len(Body(last.at + 2)) >= AddrLen )
        => /\ last.outcome = "some"
           /\ i = last.at + 2
           /\ LET file == emitted[Len(emitted)]
                  header == data_without_prefix(CursorBlock)
                  body == Body(last.at + 2)
              IN  /\ file.kind = "Bin"
                  /\ file.name = TrimEnd(SubSeq(header, PatternLen + 1, NameEnd))
                  /\ file.begin = body[1] + 256 * body[2]
                  /\ file.end = body[3] + 256 * body[4]
                  /\ file.start = body[5] + 256 * body[6]
                  /\ file.data = body

IsAscii(name) == \A k \in 1..Len(name) : name[k] < 128

\* An append of a bin file with a non-empty payload, of a basic file, or of an ascii
\* file whose text holds no 0x1A, with a name made of ASCII bytes.
TypedAppend(op) ==
    /\ IsAscii(op.name)
    /\ \/ op.op = "bin" /\ op.data # <<>>
       \/ op.op = "basic"
       \/ op.op = "ascii" /\ ~Contains(op.data, EofByte)

KindOf(op) ==
    CASE op.op = "bin" -> "Bin"
      [] op.op = "basic" -> "Basic"
      [] op.op = "ascii" -> "Ascii"
      [] OTHER -> "Custom"

\* C15 as stated: after any sequence of such typed appends on an empty tape, an
\* iteration of files() yields exactly one file per append, in append order, each of
\* the kind appended and with the appended name less its trailing spaces.
C15_OneFilePerAppend ==
    ( /\ origin = "new"
      /\ \A k \in 1..Len(log) : TypedAppend(log[k])
      /\ Finished )
        => /\ Done
           /\ Len(emitted) = Len(log)
           /\ \A k \in 1..Len(log) :
                 /\ emitted[k].kind = KindOf(log[k])
                 /\ emitted[k].name = TrimEnd(log[k].name)

====
